---- MODULE Spec2Model ----
(***************************************************************************)
(* A model of src/src/06-objects-tasks.js: the CSS selector builder         *)
(* (SimpleSelector, CombinedSelector and the cssSelectorBuilder facade).     *)
(*                                                                         *)
(* JavaScript objects live in a heap, a sequence of records addressed by   *)
(* their index, so that two references to one object are one index.        *)
(* JavaScript values are tagged records: null, a string, or a reference.   *)
(* Strings are TLA+ strings; \o is JavaScript's string concatenation.      *)
(***************************************************************************)
EXTENDS Integers, Sequences, FiniteSets, TLC

VARIABLES
  heap,   \* the objects created so far: heap[o] is the object with reference o
  log,    \* history: log[o] is the sequence of calls that returned normally on o
  last    \* the last call made: what was called, on what, and how it ended

vars == <<heap, log, last>>

(***************************************************************************)
(* Bounds of the exploration.                                              *)
(***************************************************************************)
\* calls accepted by one simple selector in the one-chain specification
MaxCalls == 4
\* calls accepted by the selector of the plain-chain specification
MaxPlainCalls == 6
\* objects in the heap, and calls accepted in all, in the heap specification
MaxObjs == 3
MaxHeapCalls == 4
\* chains, and calls accepted in all, in the chains specification
MaxChains == 2
MaxChainCalls == 4
\* size of the sides of a rectangle
MaxSide == 4
\* members of the object texts
MaxFields == 2

\* the strings callers pass as selector parts
Strings == {"", "a", "b"}
\* the strings callers pass as combinators
Combinators == {"+", " "}

\* the argument lists callers pass to the variadic class(...vals) and
\* pseudoClass(...values): none, one or several values
ArgLists == {<<>>, <<"">>, <<"a">>, <<"b">>, <<"a", "b">>}
\* the non-empty strings and argument lists of the plain-chain specification
PlainStrings == {"a", "b"}
PlainArgLists == {<<"a">>, <<"b">>, <<"a", "b">>}
\* the strings callers pass in the heap and chains specifications
Names == {"a"}

(***************************************************************************)
(* JavaScript values.                                                      *)
(***************************************************************************)
Null == [type |-> "null"]
Undefined == [type |-> "undefined"]
Str(s) == [type |-> "string", val |-> s]
Ref(o) == [type |-> "object", ref |-> o]

\* the truthiness test of `if (x)`: null, undefined and '' are falsy
ToBoolean(v) ==
  CASE v.type = "string" -> v.val # ""
    [] v.type = "object" -> TRUE
    [] OTHER -> FALSE

\* Array.prototype.join on an array of strings
RECURSIVE Join(_, _)
Join(arr, sep) ==
  IF Len(arr) = 0 THEN ""
  ELSE IF Len(arr) = 1 THEN arr[1]
  ELSE arr[1] \o sep \o Join(Tail(arr), sep)

(***************************************************************************)
(* The two errors the builder throws.  Both are plain Error objects in the *)
(* source; the name records which check threw.                             *)
(***************************************************************************)
NoError == [name |-> "none", message |-> ""]
OrderError ==
  [name |-> "OrderError",
   message |-> "Selector parts should be arranged in the following order: element, id, class, attribute, pseudo-class, pseudo-element"]
DuplicateError ==
  [name |-> "DuplicateError",
   message |-> "Element, id and pseudo-element should not occur more then one time inside the selector"]

\* the outcome of a call: the heap after it, what it threw, what it returned
Return(h, v) == [heap |-> h, thrown |-> NoError, ret |-> v]
Throw(h, e) == [heap |-> h, thrown |-> e, ret |-> Undefined]

(***************************************************************************)
(* class SimpleSelector                                                    *)
(***************************************************************************)
SimpleSelector_constructor ==
  [class |-> "SimpleSelector",
   el |-> Null,
   elId |-> Null,
   classes |-> <<>>,
   attribute |-> Null,
   pseudoClassEl |-> <<>>,
   pseudoElementEl |-> <<>>]

\* fault: one shared instance, handed out again by every creation
New_shared(h, obj) ==
  IF Len(h) = 0
  THEN [heap |-> Append(h, obj), ref |-> 1]
  ELSE [heap |-> [h EXCEPT ![1] = obj], ref |-> 1]

\* new SimpleSelector(): a fresh object at a reference no object has yet
New(h, obj) == [heap |-> Append(h, obj), ref |-> Len(h) + 1]

SimpleSelector_element(h, this, el) ==
  LET self == h[this] IN
  IF \/ ToBoolean(self.elId) \/ Len(self.classes) # 0 \/ ToBoolean(self.attribute)
     \/ Len(self.pseudoClassEl) # 0 \/ Len(self.pseudoElementEl) # 0
  THEN Throw(h, OrderError)
  ELSE IF ToBoolean(self.el)
  THEN Throw(h, DuplicateError)
  ELSE Return([h EXCEPT ![this].el = Str(el)], Str(el))

\* fault: id() without the duplicate check
SimpleSelector_id_noDuplicateCheck(h, this, val) ==
  LET self == h[this] IN
  IF \/ Len(self.classes) # 0 \/ ToBoolean(self.attribute)
     \/ Len(self.pseudoClassEl) # 0 \/ Len(self.pseudoElementEl) # 0
  THEN Throw(h, OrderError)
  ELSE Return([h EXCEPT ![this].elId = Str(val)], Ref(this))

SimpleSelector_id(h, this, val) ==
  LET self == h[this] IN
  IF \/ Len(self.classes) # 0 \/ ToBoolean(self.attribute)
     \/ Len(self.pseudoClassEl) # 0 \/ Len(self.pseudoElementEl) # 0
  THEN Throw(h, OrderError)
  ELSE IF ToBoolean(self.elId)
  THEN Throw(h, DuplicateError)
  ELSE Return([h EXCEPT ![this].elId = Str(val)], Ref(this))

\* fault: class() whose order check leaves the attribute out
SimpleSelector_class_noAttrCheck(h, this, vals) ==
  LET self == h[this] IN
  IF Len(self.pseudoClassEl) # 0 \/ Len(self.pseudoElementEl) # 0
  THEN Throw(h, OrderError)
  ELSE Return([h EXCEPT ![this].classes = self.classes \o vals], Ref(this))

SimpleSelector_class(h, this, vals) ==
  LET self == h[this] IN
  IF \/ ToBoolean(self.attribute)
     \/ Len(self.pseudoClassEl) # 0 \/ Len(self.pseudoElementEl) # 0
  THEN Throw(h, OrderError)
  ELSE Return([h EXCEPT ![this].classes = self.classes \o vals], Ref(this))

\* fault: attr() made set-once, with a duplicate check like id()'s
SimpleSelector_attr_setOnce(h, this, value) ==
  LET self == h[this] IN
  IF Len(self.pseudoClassEl) # 0 \/ Len(self.pseudoElementEl) # 0
  THEN Throw(h, OrderError)
  ELSE IF ToBoolean(self.attribute)
  THEN Throw(h, DuplicateError)
  ELSE Return([h EXCEPT ![this].attribute = Str(value)], Ref(this))

SimpleSelector_attr(h, this, value) ==
  LET self == h[this] IN
  IF Len(self.pseudoClassEl) # 0 \/ Len(self.pseudoElementEl) # 0
  THEN Throw(h, OrderError)
  ELSE Return([h EXCEPT ![this].attribute = Str(value)], Ref(this))

\* fault: pseudoClass() made set-once
SimpleSelector_pseudoClass_once(h, this, values) ==
  LET self == h[this] IN
  IF Len(self.pseudoElementEl) # 0
  THEN Throw(h, OrderError)
  ELSE IF Len(self.pseudoClassEl) # 0
  THEN Throw(h, DuplicateError)
  ELSE Return([h EXCEPT ![this].pseudoClassEl = self.pseudoClassEl \o values], Ref(this))

SimpleSelector_pseudoClass(h, this, values) ==
  LET self == h[this] IN
  IF Len(self.pseudoElementEl) # 0
  THEN Throw(h, OrderError)
  ELSE Return([h EXCEPT ![this].pseudoClassEl = self.pseudoClassEl \o values], Ref(this))

\* fault: the value is pushed before the duplicate check throws
SimpleSelector_pseudoElement_pushFirst(h, this, value) ==
  LET self == h[this] IN
  IF Len(self.pseudoElementEl) # 0
  THEN Throw([h EXCEPT ![this].pseudoElementEl = Append(self.pseudoElementEl, value)],
             DuplicateError)
  ELSE Return([h EXCEPT ![this].pseudoElementEl = Append(self.pseudoElementEl, value)],
              Ref(this))

\* fault: pseudoElement() whose duplicate check throws the ordering message
SimpleSelector_pseudoElement_orderMessage(h, this, value) ==
  LET self == h[this] IN
  IF Len(self.pseudoElementEl) # 0
  THEN Throw(h, [name |-> "DuplicateError", message |-> OrderError.message])
  ELSE Return([h EXCEPT ![this].pseudoElementEl = Append(self.pseudoElementEl, value)],
              Ref(this))

SimpleSelector_pseudoElement(h, this, value) ==
  LET self == h[this] IN
  IF Len(self.pseudoElementEl) # 0
  THEN Throw(h, DuplicateError)
  ELSE Return([h EXCEPT ![this].pseudoElementEl = Append(self.pseudoElementEl, value)],
              Ref(this))

\* fault: stringify() that writes the pseudo-element with one colon
SimpleSelector_stringify_oneColon(self) ==
  LET o1 == IF ToBoolean(self.el) THEN self.el.val ELSE ""
      o2 == IF ToBoolean(self.elId) THEN o1 \o "#" \o self.elId.val ELSE o1
      o3 == IF Len(self.classes) # 0 THEN o2 \o "." \o Join(self.classes, ".") ELSE o2
      o4 == IF ToBoolean(self.attribute) THEN o3 \o "[" \o self.attribute.val \o "]" ELSE o3
      o5 == IF Len(self.pseudoClassEl) # 0
            THEN o4 \o ":" \o Join(self.pseudoClassEl, ":") ELSE o4
      o6 == IF Len(self.pseudoElementEl) # 0
            THEN o5 \o ":" \o Join(self.pseudoElementEl, ":") ELSE o5
  IN o6

SimpleSelector_stringify(self) ==
  LET o1 == IF ToBoolean(self.el) THEN self.el.val ELSE ""
      o2 == IF ToBoolean(self.elId) THEN o1 \o "#" \o self.elId.val ELSE o1
      o3 == IF Len(self.classes) # 0 THEN o2 \o "." \o Join(self.classes, ".") ELSE o2
      o4 == IF ToBoolean(self.attribute) THEN o3 \o "[" \o self.attribute.val \o "]" ELSE o3
      o5 == IF Len(self.pseudoClassEl) # 0
            THEN o4 \o ":" \o Join(self.pseudoClassEl, ":") ELSE o4
      o6 == IF Len(self.pseudoElementEl) # 0
            THEN o5 \o "::" \o Join(self.pseudoElementEl, "::") ELSE o5
  IN o6

(***************************************************************************)
(* function CombinedSelector                                               *)
(***************************************************************************)
CombinedSelector(s1, sep, s2) ==
  [class |-> "CombinedSelector", s1 |-> s1, sep |-> sep, s2 |-> s2]

\* o.stringify(), dispatched on the object's class; a combined selector
\* renders the objects its references point at, as they are now
RECURSIVE stringify(_, _)
\* fault: the combinator written without the spaces around it
CombinedSelector_stringify_noSpaces(h, self) ==
  stringify(h, self.s1) \o self.sep \o stringify(h, self.s2)

\* fault: the left operand rendered on both sides
CombinedSelector_stringify_leftTwice(h, self) ==
  stringify(h, self.s1) \o " " \o self.sep \o " " \o stringify(h, self.s1)

CombinedSelector_stringify(h, self) ==
  stringify(h, self.s1) \o " " \o self.sep \o " " \o stringify(h, self.s2)

stringify(h, o) ==
  IF h[o].class = "SimpleSelector"
  THEN SimpleSelector_stringify(h[o])
  ELSE CombinedSelector_stringify(h, h[o])

(***************************************************************************)
(* const cssSelectorBuilder                                                *)
(***************************************************************************)
cssSelectorBuilder_element(h, value) ==
  LET s == New(h, SimpleSelector_constructor) IN
  Return([s.heap EXCEPT ![s.ref].el = Str(value)], Ref(s.ref))

cssSelectorBuilder_id(h, value) ==
  LET s == New(h, SimpleSelector_constructor) IN
  SimpleSelector_id(s.heap, s.ref, value)

cssSelectorBuilder_class(h, value) ==
  LET s == New(h, SimpleSelector_constructor) IN
  SimpleSelector_class(s.heap, s.ref, <<value>>)

cssSelectorBuilder_attr(h, value) ==
  LET s == New(h, SimpleSelector_constructor) IN
  SimpleSelector_attr(s.heap, s.ref, value)

cssSelectorBuilder_pseudoClass(h, value) ==
  LET s == New(h, SimpleSelector_constructor) IN
  SimpleSelector_pseudoClass(s.heap, s.ref, <<value>>)

cssSelectorBuilder_pseudoElement(h, value) ==
  LET s == New(h, SimpleSelector_constructor) IN
  SimpleSelector_pseudoElement(s.heap, s.ref, value)

cssSelectorBuilder_combine(h, selector1, combinator, selector2) ==
  LET c == New(h, CombinedSelector(selector1, combinator, selector2)) IN
  Return(c.heap, Ref(c.ref))

(***************************************************************************)
(* The calls a caller can make.  Each action is one call: it takes the     *)
(* heap to the heap the call leaves, and records the call in last and, if  *)
(* it returned normally, in the history of the selector it was made on.    *)
(***************************************************************************)
Call(op, this, args, refs, r) ==
  [op |-> op, this |-> this, args |-> args, refs |-> refs,
   thrown |-> r.thrown, ret |-> r.ret]

Entry(op, args, refs) == [op |-> op, args |-> args, refs |-> refs]

\* a facade call: the selector it returns starts a history
Create(op, args, refs, r) ==
  /\ heap' = r.heap
  /\ last' = Call(op, 0, args, refs, r)
  /\ log' = Append(log, <<Entry(op, args, refs)>>)

\* a method call on the simple selector o
Invoke(op, o, args, r) ==
  /\ heap' = r.heap
  /\ last' = Call(op, o, args, <<>>, r)
  /\ log' = IF r.thrown = NoError
            THEN [log EXCEPT ![o] = Append(@, Entry(op, args, <<>>))]
            ELSE log

Objects == 1..Len(heap)
Simples == {o \in Objects : heap[o].class = "SimpleSelector"}

BuilderElement(v) == Create("element", <<v>>, <<>>, cssSelectorBuilder_element(heap, v))
BuilderId(v) == Create("id", <<v>>, <<>>, cssSelectorBuilder_id(heap, v))
BuilderClass(v) == Create("class", <<v>>, <<>>, cssSelectorBuilder_class(heap, v))
BuilderAttr(v) == Create("attr", <<v>>, <<>>, cssSelectorBuilder_attr(heap, v))
BuilderPseudoClass(v) ==
  Create("pseudoClass", <<v>>, <<>>, cssSelectorBuilder_pseudoClass(heap, v))
BuilderPseudoElement(v) ==
  Create("pseudoElement", <<v>>, <<>>, cssSelectorBuilder_pseudoElement(heap, v))
BuilderCombine(l, c, r) ==
  Create("combine", <<c>>, <<l, r>>, cssSelectorBuilder_combine(heap, l, c, r))

Element(o, v) == Invoke("element", o, <<v>>, SimpleSelector_element(heap, o, v))
Id(o, v) == Invoke("id", o, <<v>>, SimpleSelector_id(heap, o, v))
Class(o, vs) == Invoke("class", o, vs, SimpleSelector_class(heap, o, vs))
Attr(o, v) == Invoke("attr", o, <<v>>, SimpleSelector_attr(heap, o, v))
PseudoClass(o, vs) ==
  Invoke("pseudoClass", o, vs, SimpleSelector_pseudoClass(heap, o, vs))
PseudoElement(o, v) ==
  Invoke("pseudoElement", o, <<v>>, SimpleSelector_pseudoElement(heap, o, v))

\* fault: a rendering that takes the classes out of the selector it renders
Stringify_consuming(o) ==
  /\ last' = Call("stringify", o, <<>>, <<>>, Return(heap, Str(stringify(heap, o))))
  /\ heap' = IF heap[o].class = "SimpleSelector"
             THEN [heap EXCEPT ![o].classes = <<>>]
             ELSE heap
  /\ UNCHANGED log

Stringify(o) ==
  /\ last' = Call("stringify", o, <<>>, <<>>, Return(heap, Str(stringify(heap, o))))
  /\ UNCHANGED <<heap, log>>

Init ==
  /\ heap = <<>>
  /\ log = <<>>
  /\ last = Call("none", 0, <<>>, <<>>, Return(<<>>, Undefined))

(***************************************************************************)
(* Spec: one chain.  One facade call creates a simple selector; every      *)
(* method is then called on it with every argument list, while its history *)
(* has room, and stringify at any time.                                    *)
(***************************************************************************)
Room(o) == Len(log[o]) < MaxCalls

Next ==
  \/ \E v \in Strings : heap = <<>> /\ BuilderElement(v)
  \/ \E v \in Strings : heap = <<>> /\ BuilderId(v)
  \/ \E v \in Strings : heap = <<>> /\ BuilderClass(v)
  \/ \E v \in Strings : heap = <<>> /\ BuilderAttr(v)
  \/ \E v \in Strings : heap = <<>> /\ BuilderPseudoClass(v)
  \/ \E v \in Strings : heap = <<>> /\ BuilderPseudoElement(v)
  \/ \E o \in Simples, v \in Strings : Room(o) /\ Element(o, v)
  \/ \E o \in Simples, v \in Strings : Room(o) /\ Id(o, v)
  \/ \E o \in Simples, vs \in ArgLists : Room(o) /\ Class(o, vs)
  \/ \E o \in Simples, v \in Strings : Room(o) /\ Attr(o, v)
  \/ \E o \in Simples, vs \in ArgLists : Room(o) /\ PseudoClass(o, vs)
  \/ \E o \in Simples, v \in Strings : Room(o) /\ PseudoElement(o, v)
  \/ \E o \in Objects : Stringify(o)

Spec == Init /\ [][Next]_vars

(***************************************************************************)
(* SpecHeap: combination.  element and class create simple selectors (the  *)
(* other creations are in the chain specifications), combine joins any two *)
(* objects (the same object twice included), and every method is called on *)
(* any simple selector, before or after it became an operand.              *)
(***************************************************************************)
RECURSIVE Sum(_)
Sum(lens) == IF Len(lens) = 0 THEN 0 ELSE Head(lens) + Sum(Tail(lens))
TotalCalls == Sum([o \in Objects |-> Len(log[o])])

HeapRoom == TotalCalls < MaxHeapCalls
HeapNew == Len(heap) < MaxObjs /\ HeapRoom

NextHeap ==
  \/ \E v \in Names : HeapNew /\ BuilderElement(v)
  \/ \E v \in Names : HeapNew /\ BuilderClass(v)
  \/ \E l \in Objects, r \in Objects, c \in Combinators :
       HeapNew /\ BuilderCombine(l, c, r)
  \/ \E o \in Simples, v \in Names : HeapRoom /\ Element(o, v)
  \/ \E o \in Simples, v \in Names : HeapRoom /\ Id(o, v)
  \/ \E o \in Simples, v \in Names : HeapRoom /\ Class(o, <<v>>)
  \/ \E o \in Simples, v \in Names : HeapRoom /\ Attr(o, v)
  \/ \E o \in Simples, v \in Names : HeapRoom /\ PseudoClass(o, <<v>>)
  \/ \E o \in Simples, v \in Names : HeapRoom /\ PseudoElement(o, v)
  \/ \E o \in Objects : Stringify(o)

SpecHeap == Init /\ [][NextHeap]_vars

(***************************************************************************)
(* SpecPlain: one chain in which every call passes non-empty strings, long *)
(* enough for a selector to receive all six categories.                    *)
(***************************************************************************)
PlainRoom(o) == Len(log[o]) < MaxPlainCalls

NextPlain ==
  \/ \E v \in PlainStrings : heap = <<>> /\ BuilderElement(v)
  \/ \E v \in PlainStrings : heap = <<>> /\ BuilderId(v)
  \/ \E v \in PlainStrings : heap = <<>> /\ BuilderClass(v)
  \/ \E v \in PlainStrings : heap = <<>> /\ BuilderAttr(v)
  \/ \E v \in PlainStrings : heap = <<>> /\ BuilderPseudoClass(v)
  \/ \E v \in PlainStrings : heap = <<>> /\ BuilderPseudoElement(v)
  \/ \E o \in Simples, v \in PlainStrings : PlainRoom(o) /\ Element(o, v)
  \/ \E o \in Simples, v \in PlainStrings : PlainRoom(o) /\ Id(o, v)
  \/ \E o \in Simples, vs \in PlainArgLists : PlainRoom(o) /\ Class(o, vs)
  \/ \E o \in Simples, v \in PlainStrings : PlainRoom(o) /\ Attr(o, v)
  \/ \E o \in Simples, vs \in PlainArgLists : PlainRoom(o) /\ PseudoClass(o, vs)
  \/ \E o \in Simples, v \in PlainStrings : PlainRoom(o) /\ PseudoElement(o, v)
  \/ \E o \in Objects : Stringify(o)

SpecPlain == Init /\ [][NextPlain]_vars

(***************************************************************************)
(* SpecChains: several chains and no combination.  Facade calls start      *)
(* chains, and the calls on the selectors of the chains interleave.        *)
(***************************************************************************)
ChainsRoom == TotalCalls < MaxChainCalls
ChainsNew == Len(heap) < MaxChains /\ ChainsRoom

NextChains ==
  \/ \E v \in Names : ChainsNew /\ BuilderElement(v)
  \/ \E v \in Names : ChainsNew /\ BuilderId(v)
  \/ \E v \in Names : ChainsNew /\ BuilderClass(v)
  \/ \E v \in Names : ChainsNew /\ BuilderAttr(v)
  \/ \E v \in Names : ChainsNew /\ BuilderPseudoClass(v)
  \/ \E v \in Names : ChainsNew /\ BuilderPseudoElement(v)
  \/ \E o \in Simples, v \in Names : ChainsRoom /\ Element(o, v)
  \/ \E o \in Simples, v \in Names : ChainsRoom /\ Id(o, v)
  \/ \E o \in Simples, v \in Names : ChainsRoom /\ Class(o, <<v>>)
  \/ \E o \in Simples, v \in Names : ChainsRoom /\ Attr(o, v)
  \/ \E o \in Simples, v \in Names : ChainsRoom /\ PseudoClass(o, <<v>>)
  \/ \E o \in Simples, v \in Names : ChainsRoom /\ PseudoElement(o, v)
  \/ \E o \in Objects : Stringify(o)

SpecChains == Init /\ [][NextChains]_vars

(***************************************************************************)
(* Vocabulary of the properties.  The categories and their order are the   *)
(* specification's; the history of a selector tells which calls it has     *)
(* accepted, independently of the fields the code keeps.                   *)
(***************************************************************************)
AddOps == {"element", "id", "class", "attr", "pseudoClass", "pseudoElement"}

Rank(op) ==
  CASE op = "element" -> 0
    [] op = "id" -> 1
    [] op = "class" -> 2
    [] op = "attr" -> 3
    [] op = "pseudoClass" -> 4
    [] op = "pseudoElement" -> 5

\* a call with non-empty string arguments: at least one, none of them ''
PlainArgs(args) == Len(args) >= 1 /\ \A i \in 1..Len(args) : args[i] # ""
PlainLog(l) == \A i \in 1..Len(l) : PlainArgs(l[i].args)

\* the last call was a method call on a simple selector (not a facade call)
MethodCall == last.this # 0 /\ last.op \in AddOps
\* the history of the selector the last call was made on, before that call
Before ==
  IF last.thrown = NoError
  THEN SubSeq(log[last.this], 1, Len(log[last.this]) - 1)
  ELSE log[last.this]

\* the accepted calls of op in a history, and whether a call passed a value
\* to a category later than op's
Calls(l, op) == {i \in 1..Len(l) : l[i].op = op}
LaterPopulated(l, op) ==
  \E i \in 1..Len(l) : Rank(l[i].op) > Rank(op) /\ Len(l[i].args) >= 1

\* C1: in a chain of calls with non-empty string arguments, a call to
\* element, id, class, attr or pseudoClass made after a call of a strictly
\* later category has succeeded fails with OrderError.
CategoryOrdering ==
  ( /\ MethodCall
    /\ last.op # "pseudoElement"
    /\ PlainArgs(last.args)
    /\ PlainLog(Before)
    /\ \E i \in 1..Len(Before) : Rank(Before[i].op) > Rank(last.op) )
  => last.thrown = OrderError

\* class() after attr() on the same chain was rejected with OrderError
CategoryOrderingWitness ==
  /\ MethodCall
  /\ last.op = "class"
  /\ PlainArgs(last.args)
  /\ PlainLog(Before)
  /\ \E i \in 1..Len(Before) : Before[i].op = "attr"
  /\ last.thrown = OrderError

\* the one accepted call of op in a history that has exactly one
TheCall(l, op) == l[CHOOSE i \in Calls(l, op) : TRUE]

\* C2: in a chain of calls with non-empty string arguments, a second call to
\* element, id or pseudoElement on a selector that has that part fails, with
\* DuplicateError when no later category is populated, and leaves the stored
\* value as it was; so a selector never accepts two element, two id or two
\* pseudoElement calls, and stores the value of the one it accepted.
SingletonCategories ==
  /\ ( /\ MethodCall
       /\ last.op \in {"element", "id", "pseudoElement"}
       /\ PlainArgs(last.args)
       /\ PlainLog(Before)
       /\ Calls(Before, last.op) # {} )
     => /\ last.thrown # NoError
        /\ ~LaterPopulated(Before, last.op) => last.thrown = DuplicateError
  /\ \A o \in Simples :
       PlainLog(log[o]) =>
         /\ \A op \in {"element", "id", "pseudoElement"} :
              Cardinality(Calls(log[o], op)) <= 1
         /\ Calls(log[o], "element") # {} =>
              heap[o].el = Str(TheCall(log[o], "element").args[1])
         /\ Calls(log[o], "id") # {} =>
              heap[o].elId = Str(TheCall(log[o], "id").args[1])
         /\ Calls(log[o], "pseudoElement") # {} =>
              heap[o].pseudoElementEl = TheCall(log[o], "pseudoElement").args

\* id() twice on the same chain: the second call was rejected with
\* DuplicateError and the first id is still the stored one
SingletonCategoriesWitness ==
  /\ MethodCall
  /\ last.op = "id"
  /\ PlainArgs(last.args)
  /\ PlainLog(Before)
  /\ Calls(Before, "id") # {}
  /\ last.thrown = DuplicateError
  /\ heap[last.this].elId # Str(last.args[1])

\* the last accepted call of op in a history that has one
LastCall(l, op) == l[CHOOSE i \in Calls(l, op) : \A j \in Calls(l, op) : j <= i]

\* C3, as the specification states it: attr on a selector whose attribute
\* expression is already set fails with DuplicateError.
AttrSetOnce ==
  ( /\ MethodCall
    /\ last.op = "attr"
    /\ PlainArgs(last.args)
    /\ PlainLog(Before)
    /\ Calls(Before, "attr") # {} )
  => last.thrown = DuplicateError

\* C3, amended: attr on a selector whose attribute expression is already set
\* never fails with DuplicateError.  It fails with OrderError when a
\* pseudo-class or pseudo-element has been added, and leaves the stored
\* expression; otherwise it succeeds and the stored expression is the new one.
AttrOverwrites ==
  ( /\ MethodCall
    /\ last.op = "attr"
    /\ Calls(Before, "attr") # {} )
  => /\ last.thrown # DuplicateError
     /\ LaterPopulated(Before, "attr") =>
          /\ last.thrown = OrderError
          /\ heap[last.this].attribute = Str(LastCall(Before, "attr").args[1])
     /\ ~LaterPopulated(Before, "attr") =>
          /\ last.thrown = NoError
          /\ heap[last.this].attribute = Str(last.args[1])

\* attr('a') was followed by an accepted attr('b'), which replaced 'a'
AttrOverwritesWitness ==
  /\ MethodCall
  /\ last.op = "attr"
  /\ PlainArgs(last.args)
  /\ PlainLog(Before)
  /\ Calls(Before, "attr") # {}
  /\ LastCall(Before, "attr").args # last.args
  /\ last.thrown = NoError
  /\ heap[last.this].attribute = Str(last.args[1])

(***************************************************************************)
(* The rendering the specification describes, computed from the history of *)
(* accepted calls: each category's values in call order, each with its     *)
(* prefix, the categories in their fixed order.                            *)
(***************************************************************************)
RECURSIVE Prefixed(_, _)
Prefixed(args, prefix) ==
  IF Len(args) = 0 THEN "" ELSE prefix \o Head(args) \o Prefixed(Tail(args), prefix)

RECURSIVE Parts(_, _, _)
Parts(l, op, prefix) ==
  IF Len(l) = 0 THEN ""
  ELSE (IF Head(l).op = op THEN Prefixed(Head(l).args, prefix) ELSE "")
       \o Parts(Tail(l), op, prefix)

OnePart(l, op, prefix, suffix) ==
  IF Calls(l, op) = {} THEN "" ELSE prefix \o LastCall(l, op).args[1] \o suffix

Expected(l) ==
  OnePart(l, "element", "", "") \o OnePart(l, "id", "#", "")
  \o Parts(l, "class", ".") \o OnePart(l, "attr", "[", "]")
  \o Parts(l, "pseudoClass", ":") \o OnePart(l, "pseudoElement", "::", "")

\* C4: after every accepted sequence of calls with non-empty string
\* arguments, stringify() returns the element name, '#' + id, '.' + each
\* class in call order, '[' + attribute + ']', ':' + each pseudo-class in
\* call order, '::' + pseudo-element, those that are set, with nothing else.
SimpleRendering ==
  /\ \A o \in Simples :
       PlainLog(log[o]) => stringify(heap, o) = Expected(log[o])
  /\ ( /\ last.op = "stringify"
       /\ heap[last.this].class = "SimpleSelector"
       /\ PlainLog(log[last.this]) )
     => last.ret = Str(Expected(log[last.this]))

\* a selector with all six categories, two classes among them, was rendered
SimpleRenderingWitness ==
  /\ last.op = "stringify"
  /\ last.ret = Str("a#b.a.b[a]:b::a")

\* C6: OrderError and DuplicateError are the only failures, and a call
\* succeeds whenever no strictly later category has been populated and it
\* does not repeat an element, id or pseudoElement call already accepted.
NoSpuriousRejection ==
  MethodCall =>
    /\ last.thrown \in {NoError, OrderError, DuplicateError}
    /\ ( /\ ~LaterPopulated(Before, last.op)
         /\ ~( /\ last.op \in {"element", "id", "pseudoElement"}
               /\ Calls(Before, last.op) # {} ) )
       => last.thrown = NoError

\* class was accepted three times in a row, then pseudoClass
NoSpuriousRejectionWitness ==
  /\ MethodCall
  /\ last.op = "pseudoClass"
  /\ last.thrown = NoError
  /\ Len(Before) >= 3
  /\ \A i \in Len(Before) - 2 .. Len(Before) :
       Before[i].op = "class" /\ Len(Before[i].args) >= 1

\* C7: every add-operation that succeeds returns a selector instance, for a
\* method call the instance it was called on; element() too.
Chainability ==
  (last.op \in AddOps /\ last.thrown = NoError) =>
    /\ last.ret.type = "object"
    /\ heap[last.ret.ref].class = "SimpleSelector"
    /\ last.this # 0 => last.ret = Ref(last.this)

\* C8, as the specification states it: a DuplicateError carries "... more
\* than one time ...", an OrderError the ordering message.
ErrorMessagesThan ==
  /\ last.thrown.name = "DuplicateError" =>
       last.thrown.message =
         "Element, id and pseudo-element should not occur more than one time inside the selector"
  /\ last.thrown.name = "OrderError" =>
       last.thrown.message =
         "Selector parts should be arranged in the following order: element, id, class, attribute, pseudo-class, pseudo-element"

\* C8, amended: a DuplicateError carries "... more then one time ...", as
\* the source spells it; an OrderError the ordering message.
ErrorMessages ==
  /\ last.thrown.name = "DuplicateError" =>
       last.thrown.message =
         "Element, id and pseudo-element should not occur more then one time inside the selector"
  /\ last.thrown.name = "OrderError" =>
       last.thrown.message =
         "Selector parts should be arranged in the following order: element, id, class, attribute, pseudo-class, pseudo-element"

\* a duplicate pseudoElement call was rejected with the duplicate message
ErrorMessagesWitness ==
  /\ MethodCall
  /\ last.op = "pseudoElement"
  /\ last.thrown.name = "DuplicateError"
  /\ last.thrown.message # OrderError.message

(***************************************************************************)
(* Several selectors: the rendering of a combined selector from the        *)
(* history (the arguments combine was given, and the histories of the      *)
(* selectors they name), and the simple selectors it is built from.        *)
(***************************************************************************)
Combineds == {o \in Objects : heap[o].class = "CombinedSelector"}

RECURSIVE ExpectedRender(_, _)
ExpectedRender(lg, o) ==
  IF lg[o][1].op = "combine"
  THEN ExpectedRender(lg, lg[o][1].refs[1]) \o " " \o lg[o][1].args[1] \o " "
       \o ExpectedRender(lg, lg[o][1].refs[2])
  ELSE Expected(lg[o])

RECURSIVE Reach(_, _)
Reach(h, o) ==
  IF h[o].class = "SimpleSelector" THEN {o}
  ELSE Reach(h, h[o].s1) \cup Reach(h, h[o].s2)

\* C5: combine(left, c, right).stringify() is left.stringify(), a space, c
\* as supplied, a space, right.stringify(), for simple and combined operands
\* at any depth; a ' ' combinator gives three spaces.
CombinedRendering ==
  /\ \A o \in Combineds : stringify(heap, o) = ExpectedRender(log, o)
  /\ (last.op = "stringify" /\ last.this \in Combineds)
     => last.ret = Str(ExpectedRender(log, last.this))
  /\ (last.op = "combine")
     => /\ last.thrown = NoError
        /\ last.ret.ref \in Combineds
        /\ stringify(heap, last.ret.ref) =
             stringify(heap, last.refs[1]) \o " " \o last.args[1] \o " "
             \o stringify(heap, last.refs[2])

\* a combination whose left operand is itself a combination, joined by the
\* descendant combinator, was rendered: three spaces in a row
CombinedRenderingWitness ==
  /\ last.op = "stringify"
  /\ last.this \in Combineds
  /\ heap[last.this].s1 \in Combineds
  /\ heap[last.this].sep = " "
  /\ heap[last.this].s2 \notin Combineds
  /\ last.ret = Str(stringify(heap, heap[last.this].s1) \o "   "
                    \o stringify(heap, heap[last.this].s2))

\* what a facade call leaves in the selector it creates
Only(op, v) ==
  CASE op = "element" -> [SimpleSelector_constructor EXCEPT !.el = Str(v)]
    [] op = "id" -> [SimpleSelector_constructor EXCEPT !.elId = Str(v)]
    [] op = "class" -> [SimpleSelector_constructor EXCEPT !.classes = <<v>>]
    [] op = "attr" -> [SimpleSelector_constructor EXCEPT !.attribute = Str(v)]
    [] op = "pseudoClass" -> [SimpleSelector_constructor EXCEPT !.pseudoClassEl = <<v>>]
    [] op = "pseudoElement" -> [SimpleSelector_constructor EXCEPT !.pseudoElementEl = <<v>>]

\* C9: every facade creation call returns a fresh simple selector whose only
\* populated part is the one supplied, and a call changes neither the
\* stored parts nor the rendering of any simple selector other than the one
\* it is made on.
ChainIndependence ==
  /\ [](  (last.this = 0 /\ last.op \in AddOps)
          => /\ last.thrown = NoError
             /\ last.ret = Ref(Len(heap))
             /\ Len(log[Len(heap)]) = 1
             /\ heap[Len(heap)] = Only(last.op, last.args[1]) )
  /\ [][ /\ (last'.this = 0 /\ last'.op \in AddOps) => Len(heap') = Len(heap) + 1
         /\ \A o \in Simples :
              last'.this # o =>
                /\ heap'[o] = heap[o]
                /\ stringify(heap', o) = stringify(heap, o) ]_vars

\* two selectors from two facade calls, each then extended by a call of its
\* own, the second after the first
ChainIndependenceWitness ==
  /\ Cardinality(Simples) >= 2
  /\ Len(log[1]) = 2
  /\ Len(log[2]) = 2
  /\ MethodCall
  /\ last.this = 1
  /\ last.thrown = NoError

\* C10, as the specification states it: once combine has returned, no later
\* operation changes the combined selector's stringify() result.
CombinedImmutable ==
  [][ \A o \in Combineds : stringify(heap', o) = stringify(heap, o) ]_vars

\* C10, amended: the fields of a combined selector never change, but its
\* stringify() result is computed from its operands as they are at the time
\* of the call: it changes when, and only when, a later call changes the
\* rendering of a simple selector it is built from.
CombinedTracksOperands ==
  [][ \A o \in Combineds :
        /\ heap'[o] = heap[o]
        /\ stringify(heap', o) # stringify(heap, o)
           <=> \E p \in Reach(heap, o) : stringify(heap', p) # stringify(heap, p) ]_vars

\* combine returned, then an operand accepted a method call, and the
\* combined selector renders the part that call added
CombinedTracksOperandsWitness ==
  /\ MethodCall
  /\ last.thrown = NoError
  /\ \E o \in Combineds :
       /\ last.this \in Reach(heap, o)
       /\ stringify(heap, o) = ExpectedRender(log, o)
       /\ stringify(heap, o) # ExpectedRender([log EXCEPT ![last.this] = Before], o)

(***************************************************************************)
(* function Rectangle and Rectangle.prototype.getArea                      *)
(*                                                                         *)
(* A plain object is its prototype (class) and its own properties in       *)
(* insertion order.  Numbers are integers small enough to be exact.        *)
(***************************************************************************)
Num(n) == [type |-> "number", val |-> n]
NaN == [type |-> "NaN"]
Prop(k, v) == [key |-> k, val |-> v]

\* obj.key: the value of the own property, undefined when there is none
Get(obj, k) ==
  IF \E i \in 1..Len(obj.props) : obj.props[i].key = k
  THEN obj.props[CHOOSE i \in 1..Len(obj.props) : obj.props[i].key = k].val
  ELSE Undefined

\* a * b: the product of two numbers, NaN when an operand is undefined
Multiply(a, b) ==
  IF a.type = "number" /\ b.type = "number" THEN Num(a.val * b.val) ELSE NaN

Rectangle(h, width, height) ==
  LET r == New(h, [class |-> "Rectangle",
                   props |-> <<Prop("width", Num(width)), Prop("height", Num(height))>>])
  IN Return(r.heap, Ref(r.ref))

\* fault: the sides added instead of multiplied
Rectangle_getArea_sum(self) ==
  LET a == Get(self, "width")
      b == Get(self, "height")
  IN IF a.type = "number" /\ b.type = "number" THEN Num(a.val + b.val) ELSE NaN

Rectangle_getArea(self) == Multiply(Get(self, "width"), Get(self, "height"))

Rectangles == {o \in Objects : heap[o].class = "Rectangle"}

NewRectangle(w, h) == Create("Rectangle", <<w, h>>, <<>>, Rectangle(heap, w, h))

\* obj.getArea(): an own property of that name hides the method of the
\* prototype, and a number is not callable; Object.prototype has no getArea
TypeError == [name |-> "TypeError", message |-> "getArea is not a function"]
Invoke_getArea(h, o) ==
  IF Get(h[o], "getArea") # Undefined THEN Throw(h, TypeError)
  ELSE IF h[o].class = "Rectangle" THEN Return(h, Rectangle_getArea(h[o]))
  ELSE Throw(h, TypeError)

GetArea(o) ==
  /\ last' = Call("getArea", o, <<>>, <<>>, Invoke_getArea(heap, o))
  /\ UNCHANGED <<heap, log>>

(***************************************************************************)
(* SpecRect: one rectangle is constructed, with sides of either sign, and  *)
(* its area is asked for.                                                  *)
(***************************************************************************)
\* the sides callers pass: every integer up to MaxSide in size, and the
\* sides of the documented example
Sides == {n - MaxSide : n \in 0..(2 * MaxSide)} \cup {10, 20}

NextRect ==
  \/ \E w \in Sides, h \in Sides : heap = <<>> /\ NewRectangle(w, h)
  \/ \E o \in Rectangles : GetArea(o)

SpecRect == Init /\ [][NextRect]_vars

\* C11: a Rectangle constructed with (w, h), of any sign, stores width = w
\* and height = h, and its area operation returns w * h.
RectangleArea ==
  \A o \in Rectangles :
    log[o][1].op = "Rectangle" =>
      LET w == log[o][1].args[1]
          h == log[o][1].args[2]
      IN /\ Get(heap[o], "width") = Num(w)
         /\ Get(heap[o], "height") = Num(h)
         /\ (last.op = "getArea" /\ last.this = o) =>
              /\ last.thrown = NoError
              /\ last.ret = Num(w * h)

\* new Rectangle(10, 20).getArea() returned 200
RectangleAreaWitness ==
  /\ last.op = "getArea"
  /\ log[last.this][1].args = <<10, 20>>
  /\ last.ret = Num(200)

(***************************************************************************)
(* JSON text.  A text is the sequence of its tokens: punctuation, quoted   *)
(* strings, bare words and number literals; a number literal is the        *)
(* sequence of its characters.                                             *)
(***************************************************************************)
P(s) == [t |-> "punct", s |-> s]
K(s) == [t |-> "string", s |-> s]
W(s) == [t |-> "word", s |-> s]
N(chars) == [t |-> "number", chars |-> chars]

DigitChars == <<"0", "1", "2", "3", "4", "5", "6", "7", "8", "9">>
IsDigit(c) == \E i \in 1..10 : DigitChars[i] = c
DigitOf(c) == (CHOOSE i \in 1..10 : DigitChars[i] = c) - 1

\* the JSON number grammar for integers: -? (0 | [1-9][0-9]*)
IsNat(chars) ==
  /\ Len(chars) >= 1
  /\ \A i \in 1..Len(chars) : IsDigit(chars[i])
  /\ Len(chars) > 1 => chars[1] # "0"
IsNumber(chars) ==
  IF Len(chars) >= 1 /\ chars[1] = "-" THEN IsNat(Tail(chars)) ELSE IsNat(chars)

\* the value of a number literal
RECURSIVE NatOf(_)
NatOf(chars) ==
  IF Len(chars) = 0 THEN 0
  ELSE 10 * NatOf(SubSeq(chars, 1, Len(chars) - 1)) + DigitOf(chars[Len(chars)])
NumberOf(chars) == IF chars[1] = "-" THEN 0 - NatOf(Tail(chars)) ELSE NatOf(chars)

\* the literal of an integer
RECURSIVE NatChars(_)
NatChars(n) ==
  IF n < 10 THEN <<DigitChars[n + 1]>>
  ELSE Append(NatChars(n \div 10), DigitChars[(n % 10) + 1])
NumberChars(n) == IF n < 0 THEN <<"-">> \o NatChars(0 - n) ELSE NatChars(n)

(***************************************************************************)
(* JSON.stringify: an object is rendered from its own properties in        *)
(* insertion order, a number as its literal.                               *)
(***************************************************************************)
RECURSIVE Members(_)
Members(props) ==
  IF Len(props) = 0 THEN <<>>
  ELSE <<K(props[1].key), P(":"), N(NumberChars(props[1].val.val))>>
       \o (IF Len(props) > 1 THEN <<P(",")>> \o Members(Tail(props)) ELSE <<>>)

JSON_stringify(h, v) ==
  IF v.type = "object"
  THEN <<P("{")>> \o Members(h[v.ref].props) \o <<P("}")>>
  ELSE <<N(NumberChars(v.val))>>

getJSON(h, obj) == Return(h, Str(JSON_stringify(h, obj)))

(***************************************************************************)
(* JSON.parse, by recursive descent over the tokens.  A key met again      *)
(* keeps its place and takes the later value.                              *)
(***************************************************************************)
SyntaxError == [name |-> "SyntaxError", message |-> "Unexpected token in JSON"]

Parsed(v) == [ok |-> TRUE, val |-> v]
Unparsed == [ok |-> FALSE, val |-> Undefined]
PlainObject(props) == [type |-> "plain", props |-> props]

Define(props, k, v) ==
  IF \E i \in 1..Len(props) : props[i].key = k
  THEN [i \in 1..Len(props) |-> IF props[i].key = k THEN Prop(k, v) ELSE props[i]]
  ELSE Append(props, Prop(k, v))

IsNumberToken(tok) == tok.t = "number" /\ IsNumber(tok.chars)

RECURSIVE ParseMembers(_, _, _)
ParseMembers(text, i, props) ==
  IF i + 3 > Len(text) THEN Unparsed
  ELSE IF ~(text[i].t = "string" /\ text[i + 1] = P(":") /\ IsNumberToken(text[i + 2]))
  THEN Unparsed
  ELSE LET next == Define(props, text[i].s, Num(NumberOf(text[i + 2].chars))) IN
       IF text[i + 3] = P("}")
       THEN (IF i + 3 = Len(text) THEN Parsed(PlainObject(next)) ELSE Unparsed)
       ELSE IF text[i + 3] = P(",") THEN ParseMembers(text, i + 4, next)
       ELSE Unparsed

JSON_parse(text) ==
  IF Len(text) = 0 THEN Unparsed
  ELSE IF IsNumberToken(text[1])
  THEN (IF Len(text) = 1 THEN Parsed(Num(NumberOf(text[1].chars))) ELSE Unparsed)
  ELSE IF text[1] # P("{") \/ Len(text) < 2 THEN Unparsed
  ELSE IF text[2] = P("}")
  THEN (IF Len(text) = 2 THEN Parsed(PlainObject(<<>>)) ELSE Unparsed)
  ELSE ParseMembers(text, 2, <<>>)

\* fault: the parsed object keeps the prototype JSON.parse gave it
fromJSON_noSetPrototype(h, proto, json) ==
  LET res == JSON_parse(json) IN
  IF ~res.ok THEN Throw(h, SyntaxError)
  ELSE IF res.val.type = "plain"
  THEN LET r == New(h, [class |-> "Object", props |-> res.val.props])
       IN Return(r.heap, Ref(r.ref))
  ELSE Return(h, res.val)

\* Object.setPrototypeOf returns a primitive as it is
fromJSON(h, proto, json) ==
  LET res == JSON_parse(json) IN
  IF ~res.ok THEN Throw(h, SyntaxError)
  ELSE IF res.val.type = "plain"
  THEN LET r == New(h, [class |-> proto, props |-> res.val.props])
       IN Return(r.heap, Ref(r.ref))
  ELSE Return(h, res.val)

(***************************************************************************)
(* SpecJSON: one value is made, by fromJSON from a text or by the          *)
(* Rectangle constructor, and then serialized and asked for its area.      *)
(***************************************************************************)
FromJSON(proto, json) ==
  LET r == fromJSON(heap, proto, json) IN
  /\ heap' = r.heap
  /\ last' = Call("fromJSON", 0, <<proto, json>>, <<>>, r)
  /\ log' = IF r.heap # heap
            THEN Append(log, <<Entry("fromJSON", <<proto, json>>, <<>>)>>)
            ELSE log

GetJSON(o) ==
  /\ last' = Call("getJSON", o, <<>>, <<>>, getJSON(heap, Ref(o)))
  /\ UNCHANGED <<heap, log>>

\* the prototypes callers pass
Protos == {"Rectangle", "Object"}
\* the keys and numbers of the texts callers pass
Keys == {"width", "height", "getArea"}
JsonNumbers == {-3, 10, 20}
Pairs == {Prop(k, Num(n)) : k \in Keys, n \in JsonNumbers}
PropLists == UNION {[1..m -> Pairs] : m \in 0..MaxFields}

\* the texts of objects, and what is left of them when one token is lost
\* or replaced by a bare word or by a number with a leading zero
ObjectTexts == {<<P("{")>> \o Members(ps) \o <<P("}")>> : ps \in PropLists}
NumberTexts == {<<N(NumberChars(n))>> : n \in JsonNumbers}
BadTokens == {W("width"), N(<<"0", "1">>)}
\* a text without its token i, and with b in the place of its token i
Delete(text, i) ==
  IF i > Len(text) THEN text
  ELSE SubSeq(text, 1, i - 1) \o SubSeq(text, i + 1, Len(text))
Replace(text, i, b) == IF i > Len(text) THEN text ELSE [text EXCEPT ![i] = b]
Positions == 1..(4 * MaxFields + 1)
Damaged ==
  {Delete(text, i) : text \in ObjectTexts, i \in Positions}
  \cup {Replace(text, i, b) : text \in ObjectTexts, i \in Positions, b \in BadTokens}
Texts == ObjectTexts \cup NumberTexts \cup Damaged

\* nothing has been made yet
Fresh == heap = <<>> /\ last.op = "none"

NextJSON ==
  \/ Fresh /\ \E proto \in Protos, json \in Texts : FromJSON(proto, json)
  \/ Fresh /\ \E w \in JsonNumbers, h \in JsonNumbers : NewRectangle(w, h)
  \/ \E o \in Objects : GetJSON(o)
  \/ \E o \in Objects : GetArea(o)

SpecJSON == Init /\ [][NextJSON]_vars

(***************************************************************************)
(* The JSON grammar of an object text, stated by position, and the value   *)
(* a text gives a field: that of the last member with the key.             *)
(***************************************************************************)
IsObjectText(text) ==
  \/ text = <<P("{"), P("}")>>
  \/ /\ Len(text) >= 5
     /\ Len(text) % 4 = 1
     /\ text[1] = P("{")
     /\ text[Len(text)] = P("}")
     /\ \A i \in 2..(Len(text) - 1) :
          CASE i % 4 = 2 -> text[i].t = "string"
            [] i % 4 = 3 -> text[i] = P(":")
            [] i % 4 = 0 -> text[i].t = "number" /\ IsNumber(text[i].chars)
            [] OTHER -> text[i] = P(",")
IsNumberText(text) == Len(text) = 1 /\ text[1].t = "number" /\ IsNumber(text[1].chars)

KeyPositions(text, k) == {i \in 2..(Len(text) - 1) : i % 4 = 2 /\ text[i] = K(k)}
FieldValue(text, k) ==
  IF KeyPositions(text, k) = {} THEN Undefined
  ELSE LET i == CHOOSE j \in KeyPositions(text, k) : \A m \in KeyPositions(text, k) : m <= j
       IN Num(NumberOf(text[i + 2].chars))

\* the object o was made by fromJSON
Deserialized(o) == log[o][1].op = "fromJSON"
ProtoOf(o) == log[o][1].args[1]
TextOf(o) == log[o][1].args[2]

\* fromJSON of an object text returns an object of the prototype given with
\* the fields of the text; of a malformed text, it throws and makes nothing
DeserializeFields ==
  last.op = "fromJSON" =>
    LET proto == last.args[1]
        json == last.args[2]
    IN /\ IsObjectText(json) =>
            /\ last.thrown = NoError
            /\ last.ret.type = "object"
            /\ heap[last.ret.ref].class = proto
            /\ \A k \in Keys : Get(heap[last.ret.ref], k) = FieldValue(json, k)
            /\ \A i \in 1..Len(heap[last.ret.ref].props) :
                 KeyPositions(json, heap[last.ret.ref].props[i].key) # {}
       /\ (~IsObjectText(json) /\ ~IsNumberText(json)) =>
            /\ last.thrown = SyntaxError
            /\ last.ret = Undefined
            /\ heap = <<>>

\* getJSON of a deserialized value is an object text with the fields of
\* the text it was made from
SerializeRoundTrip ==
  (last.op = "getJSON" /\ Deserialized(last.this)) =>
    /\ last.thrown = NoError
    /\ IsObjectText(last.ret.val)
    /\ \A k \in Keys : FieldValue(last.ret.val, k) = FieldValue(TextOf(last.this), k)

\* the area of a value deserialized with the Rectangle prototype
AreaOfParsed(o) ==
  (last.op = "getArea" /\ last.this = o) =>
    /\ last.thrown = NoError
    /\ last.ret = Multiply(FieldValue(TextOf(o), "width"), FieldValue(TextOf(o), "height"))

\* C12 as stated: for every object text, the value deserialized with the
\* Rectangle prototype computes its area from its parsed width and height,
\* has exactly the parsed fields and serializes to the same field values;
\* a malformed text makes fromJSON throw.
DeserializeExposesAlways ==
  /\ DeserializeFields
  /\ SerializeRoundTrip
  /\ \A o \in Objects :
       (Deserialized(o) /\ ProtoOf(o) = "Rectangle") => AreaOfParsed(o)

\* C12, amended: the same, the area being computed when the text has no
\* field named getArea; such a field hides the method of the prototype.
DeserializeContract ==
  /\ DeserializeFields
  /\ SerializeRoundTrip
  /\ \A o \in Objects :
       (/\ Deserialized(o)
        /\ ProtoOf(o) = "Rectangle"
        /\ FieldValue(TextOf(o), "getArea") = Undefined) => AreaOfParsed(o)

\* fromJSON(Rectangle.prototype, '{"width":10,"height":20}').getArea()
\* returned 200
DeserializeContractWitness ==
  /\ last.op = "getArea"
  /\ Deserialized(last.this)
  /\ ProtoOf(last.this) = "Rectangle"
  /\ last.ret = Num(200)

(***************************************************************************)
(* The checks of the add-operations against the categories called.         *)
(***************************************************************************)
\* a call that passes a value, the empty string included
Valued(args) == Len(args) >= 1
ValuedLog(l) == \A i \in 1..Len(l) : Valued(l[i].args)

\* the highest rank among the accepted calls of a history
MaxRank(l) ==
  CHOOSE r \in {Rank(l[i].op) : i \in 1..Len(l)} \cup {0} :
    \A i \in 1..Len(l) : Rank(l[i].op) <= r

\* C13: on a chain of calls that each pass a value, a call raises OrderError
\* exactly when its rank is lower than the highest rank among the calls
\* accepted before it.
RankCounterEquivalence ==
  (MethodCall /\ Valued(last.args) /\ ValuedLog(Before))
  => (last.thrown = OrderError <=> Rank(last.op) < MaxRank(Before))

\* C14: the checks do not depend on the values passed: on a chain of calls
\* that each pass a value, '' included, a call after an accepted call of a
\* later category fails with OrderError, and a second element or id call
\* that follows no later category fails with DuplicateError.
ValueIndependentChecks ==
  (MethodCall /\ Valued(last.args) /\ ValuedLog(Before))
  => /\ LaterPopulated(Before, last.op) => last.thrown = OrderError
     /\ ( /\ last.op \in {"element", "id"}
          /\ Calls(Before, last.op) # {}
          /\ ~LaterPopulated(Before, last.op) )
        => last.thrown = DuplicateError

\* C17: a call to element or id that repeats an accepted call fails with
\* OrderError when a later category has been given a value, and with
\* DuplicateError only when none has.
OrderBeforeDuplicate ==
  ( /\ MethodCall
    /\ last.op \in {"element", "id"}
    /\ Valued(last.args)
    /\ ValuedLog(Before)
    /\ Calls(Before, last.op) # {} )
  => /\ LaterPopulated(Before, last.op) => last.thrown = OrderError
     /\ last.thrown = DuplicateError => ~LaterPopulated(Before, last.op)

(***************************************************************************)
(* The effect of a failed call.                                            *)
(***************************************************************************)
\* the six stored parts of a simple selector
StoredParts(obj) ==
  <<obj.el, obj.elId, obj.classes, obj.attribute, obj.pseudoClassEl, obj.pseudoElementEl>>

\* C15: a call on a simple selector that raises OrderError or DuplicateError
\* leaves the six stored parts of every selector as they were, so that
\* stringify() returns what it returned before the call; the checks of the
\* add-operations read nothing but these parts, so the calls accepted
\* before it are those accepted after it.
FailedCallChangesNothing ==
  [][ (last'.this # 0 /\ last'.op \in AddOps /\ last'.thrown # NoError)
      => /\ last'.thrown \in {OrderError, DuplicateError}
         /\ Len(heap') = Len(heap)
         /\ \A o \in Simples : StoredParts(heap'[o]) = StoredParts(heap[o])
         /\ stringify(heap', last'.this) = stringify(heap, last'.this) ]_vars

\* a second pseudoElement call was rejected with DuplicateError on a
\* selector that has an element and a pseudo-element
FailedCallChangesNothingWitness ==
  /\ MethodCall
  /\ last.op = "pseudoElement"
  /\ last.thrown = DuplicateError
  /\ heap[last.this].el = Str("a")
  /\ heap[last.this].pseudoElementEl = <<"b">>

(***************************************************************************)
(* stringify as a read.                                                    *)
(***************************************************************************)
\* C16: a stringify() call on a simple or combined selector changes no
\* object, so that no rendering changes and the add-operations meet the
\* parts they met before; a second call in a row returns the same string;
\* and the rendering of every selector is that of its accepted
\* add-operations, wherever stringify() calls came between them.
StringifyPureRead ==
  /\ [][ last'.op = "stringify"
         => /\ last'.thrown = NoError
            /\ heap' = heap
            /\ last'.ret = Str(stringify(heap', last'.this))
            /\ (last.op = "stringify" /\ last.this = last'.this) => last'.ret = last.ret
            /\ \A o \in Objects : stringify(heap', o) = stringify(heap, o) ]_vars
  /\ [](\A o \in Objects : stringify(heap, o) = ExpectedRender(log, o))

\* stringify() was called on a simple selector that has a class and is an
\* operand of a combined selector
StringifyPureReadWitness ==
  /\ last.op = "stringify"
  /\ last.this \in Simples
  /\ heap[last.this].classes # <<>>
  /\ \E c \in Combineds : last.this \in Reach(heap, c)

====
